---- MODULE Spec2Model ----
(***************************************************************************)
(* syncbops: incremental mirroring of a music library into a transcoded   *)
(* copy.  The module models the change detector and sync_song             *)
(* (src/src/sync_song.rs), the record store (src/src/hashing.rs) and the  *)
(* run driven by main (src/src/main.rs).                                  *)
(*                                                                         *)
(* Rust Option<T> values are sets with at most one element: None is {}    *)
(* and Some(x) is {x}.  A HashMap is a function whose DOMAIN is the key   *)
(* set.  The timestamp of a SyncRecord is left out: no decision reads it. *)
(***************************************************************************)
EXTENDS Integers, Sequences, FiniteSets, TLC

(***************************************************************************)
(* Bounds of the model.                                                    *)
(***************************************************************************)
\* Number of runs of main in one behaviour.
MaxRuns == 2
\* Content hashes of source files are drawn from 1..MaxHash.
MaxHash == 2
\* Number of I/O failures (unreadable source, failing ffmpeg, failing copy,
\* failing write of the records) in one behaviour of Spec.
MaxFaults == 1
\* Number of changes the user makes to the libraries between runs.
MaxEdits == 1

(***************************************************************************)
(* Option helpers.                                                         *)
(***************************************************************************)
None == {}
Some(x) == {x}
is_some(o) == o # {}
is_none(o) == o = {}
unwrap(o) == CHOOSE x \in o : TRUE

(***************************************************************************)
(* Value domains.                                                          *)
(***************************************************************************)
UpdateType ==
    {"NoChange", "NewTranscode", "Overwrite", "ForceOverwrite",
     "TranscodeMissingTarget", "Copied"}

ArtStrategy == {"None", "EmbedAll", "PreferFile", "FileOnly"}

\* Source bitrates (kbps) of the songs of the model: below, equal to and
\* above the equivalent bitrate 115 of Mp3VBR quality 6.
BitRates == {96, 115, 128}

Titles == {"t1", "t2"}

Hashes == 1..MaxHash

\* MusicFileType values: the variant and its quality or bitrate parameter.
Mp3VBR(q) == [kind |-> "Mp3VBR", param |-> q]
Mp3CBR(b) == [kind |-> "Mp3CBR", param |-> b]
Opus(b) == [kind |-> "Opus", param |-> b]
Vorbis(q) == [kind |-> "Vorbis", param |-> q]
Flac(q) == [kind |-> "Flac", param |-> q]

\* MusicFileType::equivalent_bitrate.  Vorbis qualities are integers here.
equivalent_bitrate(ft) ==
    CASE ft.kind = "Mp3CBR" -> ft.param
      [] ft.kind = "Mp3VBR" ->
            (CASE ft.param = 0 -> 245
               [] ft.param = 1 -> 225
               [] ft.param = 2 -> 190
               [] ft.param = 3 -> 175
               [] ft.param = 4 -> 165
               [] ft.param = 5 -> 130
               [] ft.param = 6 -> 115
               [] ft.param = 7 -> 100
               [] ft.param = 8 -> 85
               [] ft.param = 9 -> 65)
      [] ft.kind = "Opus" -> ft.param
      [] ft.kind = "Vorbis" ->
            (IF ft.param < 4 THEN 16 * (ft.param + 4)
             ELSE IF ft.param < 8 THEN 32 * ft.param
             ELSE 64 * (ft.param - 4))
      [] ft.kind = "Flac" -> 800

\* impl Display for MusicFileType: the file extension of the target.
extension(ft) ==
    CASE ft.kind = "Mp3VBR" -> "mp3"
      [] ft.kind = "Mp3CBR" -> "mp3"
      [] ft.kind = "Opus" -> "opus"
      [] ft.kind = "Vorbis" -> "ogg"
      [] ft.kind = "Flac" -> "flac"

\* A library-relative path is a stem and an extension.  The shadow file is
\* the same path with the extension of the target file type, under the
\* target library.
get_shadow_filename(library_relative_path, filetype) ==
    [stem |-> library_relative_path.stem, ext |-> extension(filetype)]

(***************************************************************************)
(* ffmpeg_interface: the metadata probe.  A file of the target library is *)
(* [probe, title, has_embedded_album_art]; probe = "err" is a file that   *)
(* exists and whose metadata ffprobe cannot deliver.                       *)
(***************************************************************************)
parse_file(file) ==
    IF is_none(file)
    THEN [ok |-> FALSE, err |-> "FileDoesNotExist",
          title |-> None, has_embedded_album_art |-> FALSE]
    ELSE IF unwrap(file).probe = "err"
    THEN [ok |-> FALSE, err |-> "JsonMetadata",
          title |-> None, has_embedded_album_art |-> FALSE]
    ELSE [ok |-> TRUE, err |-> "",
          title |-> unwrap(file).title,
          has_embedded_album_art |-> unwrap(file).has_embedded_album_art]

\* hashing::hash_file: None when the file cannot be opened or read.
hash_file(content_hash, readable) ==
    IF readable THEN Some(content_hash) ELSE None

(***************************************************************************)
(* sync_song.rs: the change detector.                                      *)
(***************************************************************************)
\* new_file_status that also copies a source at exactly the desired bitrate.
new_file_status_inclusive(song, desired_bitrate) ==
    IF song.metadata.bitrate_kbps <= desired_bitrate
    THEN "Copied" ELSE "NewTranscode"

\* The copy-or-transcode choice made for a file that is new to the target.
new_file_status(song, desired_bitrate) ==
    IF song.metadata.bitrate_kbps < desired_bitrate
    THEN "Copied" ELSE "NewTranscode"

\* compare_files_on_metadata that compares the titles only.
compare_files_on_metadata_title_only(source, target, want_embedded_album_art, desired_bitrate, debug_assertions) ==
    IF is_some(target) /\ unwrap(target).probe = "ok"
    THEN IF source.metadata.title = unwrap(target).title
         THEN "NoChange"
         ELSE IF source.metadata.bitrate_kbps < desired_bitrate
              THEN "Copied" ELSE "Overwrite"
    ELSE IF debug_assertions /\ is_none(target)
         THEN "Panic"
         ELSE "Overwrite"

\* compare_files_on_metadata.  A failing debug_assert is the result "Panic";
\* debug_assertions says whether the build checks it.
compare_files_on_metadata(source, target, want_embedded_album_art, desired_bitrate, debug_assertions) ==
    LET shadow_metadata == parse_file(target) IN
    IF shadow_metadata.ok
    THEN IF /\ source.metadata.title = shadow_metadata.title
            /\ want_embedded_album_art = shadow_metadata.has_embedded_album_art
         THEN "NoChange"
         ELSE IF source.metadata.bitrate_kbps < desired_bitrate
              THEN "Copied" ELSE "Overwrite"
    ELSE IF debug_assertions /\ is_none(target)
         THEN "Panic"
         ELSE "Overwrite"

\* has_music_file_changed_based_on_hash_and_records.
has_music_file_changed_based_on_hash_and_records(song, source_hash, target, want_embedded_album_art, desired_bitrate, db, debug_assertions) ==
    LET fall_through ==
            IF is_none(target)
            THEN new_file_status(song, desired_bitrate)
            ELSE compare_files_on_metadata(song, target,
                     want_embedded_album_art, desired_bitrate,
                     debug_assertions)
    IN
    IF song.library_relative_path \in DOMAIN db
    THEN LET previous_record == db[song.library_relative_path] IN
         IF is_none(target) THEN "TranscodeMissingTarget"
         ELSE IF is_some(previous_record.hash)
         THEN IF unwrap(previous_record.hash) = source_hash
              THEN "NoChange" ELSE "Overwrite"
         ELSE fall_through
    ELSE fall_through

\* has_music_file_changed with the records consulted before the hash: a
\* song with a record is reported unchanged when its hash cannot be read.
has_music_file_changed_records_first(song, target, previous_sync_db, want_embedded_album_art, desired_bitrate, source_hash, times, debug_assertions) ==
    IF is_none(source_hash)
    THEN IF is_some(previous_sync_db)
            /\ song.library_relative_path \in DOMAIN unwrap(previous_sync_db)
         THEN "NoChange"
         ELSE compare_files_on_metadata(song, target,
                  want_embedded_album_art, desired_bitrate, debug_assertions)
    ELSE IF is_some(previous_sync_db)
    THEN has_music_file_changed_based_on_hash_and_records(
             song, unwrap(source_hash), target, want_embedded_album_art,
             desired_bitrate, unwrap(previous_sync_db), debug_assertions)
    ELSE IF is_some(target) /\ times # "Newer"
    THEN compare_files_on_metadata(song, target, want_embedded_album_art,
                                   desired_bitrate, debug_assertions)
    ELSE new_file_status(song, desired_bitrate)

\* has_music_file_changed.  source_hash is the result of hash_file on the
\* source; times is the result of has_source_changed_after_target_has_been_
\* created: "Err", "Newer" (source modified after the target was created)
\* or "Older".
has_music_file_changed(song, target, previous_sync_db, want_embedded_album_art, desired_bitrate, source_hash, times, debug_assertions) ==
    IF is_none(source_hash)
    THEN compare_files_on_metadata(song, target, want_embedded_album_art,
                                   desired_bitrate, debug_assertions)
    ELSE IF is_some(previous_sync_db)
    THEN has_music_file_changed_based_on_hash_and_records(
             song, unwrap(source_hash), target, want_embedded_album_art,
             desired_bitrate, unwrap(previous_sync_db), debug_assertions)
    ELSE IF is_none(target)
    THEN new_file_status(song, desired_bitrate)
    ELSE IF times = "Err"
    THEN compare_files_on_metadata(song, target, want_embedded_album_art,
                                   desired_bitrate, debug_assertions)
    ELSE IF times = "Newer"
    THEN new_file_status(song, desired_bitrate)
    ELSE compare_files_on_metadata(song, target, want_embedded_album_art,
                                   desired_bitrate, debug_assertions)

(***************************************************************************)
(* ffmpeg_interface: the transcoder.  ffmpeg is the outcome of the ffmpeg *)
(* process: "ok", "fail_untouched" (it exits with a failure before it     *)
(* opens the output) or "fail_partial" (it fails after it has truncated   *)
(* the output, leaving a file ffprobe cannot read).  A Flac target panics.*)
(***************************************************************************)
transcode_song(source, target, target_type, embed_art, external_art_to_embed, ffmpeg) ==
    IF target_type.kind = "Flac"
    THEN [kind |-> "Panic", target |-> target]
    ELSE IF ffmpeg = "ok"
    THEN [kind |-> "Ok",
          target |-> Some([probe |-> "ok",
                           title |-> source.metadata.title,
                           has_embedded_album_art |->
                               IF ~embed_art THEN FALSE
                               ELSE IF is_some(external_art_to_embed) THEN TRUE
                               ELSE source.metadata.has_embedded_album_art])]
    ELSE IF ffmpeg = "fail_partial"
    THEN [kind |-> "Err",
          target |-> Some([probe |-> "err", title |-> None,
                           has_embedded_album_art |-> FALSE])]
    ELSE [kind |-> "Err", target |-> target]

\* std::fs::copy of the source onto the shadow path: the target becomes the
\* source file, with the source's tags and art.
copy_file(source) ==
    Some([probe |-> "ok", title |-> source.metadata.title,
          has_embedded_album_art |-> source.metadata.has_embedded_album_art])

(***************************************************************************)
(* hashing.rs: sync records.                                               *)
(***************************************************************************)
\* SyncRecord::from_song: a record for the song with no update type yet and
\* the hash of the source file as it is now.
from_song(song, hash) ==
    [library_relative_path |-> song.library_relative_path,
     update_type |-> None,
     hash |-> hash]

\* set_update_type that returns the record as it got it.
set_update_type_forgotten(record, update_type) == record

\* SyncRecord::set_update_type.
set_update_type(record, update_type) ==
    [record EXCEPT !.update_type = Some(update_type)]

(***************************************************************************)
(* sync_song.rs: sync_song.                                                *)
(***************************************************************************)
\* want_embedded_album_art that expects art under EmbedAll only from a
\* song that has art to embed.
want_embedded_album_art_if_any(art_strategy, song) ==
    CASE art_strategy = "None" -> FALSE
      [] art_strategy = "EmbedAll" ->
            (song.metadata.has_embedded_album_art
             \/ is_some(song.external_album_art))
      [] art_strategy = "PreferFile" ->
            (IF is_some(song.external_album_art) THEN FALSE ELSE TRUE)
      [] art_strategy = "FileOnly" -> FALSE

\* The art expectation handed to the change detector (sync_song.rs 32-43).
want_embedded_album_art(art_strategy, song) ==
    CASE art_strategy = "None" -> FALSE
      [] art_strategy = "EmbedAll" -> TRUE
      [] art_strategy = "PreferFile" ->
            (IF is_some(song.external_album_art) THEN FALSE ELSE TRUE)
      [] art_strategy = "FileOnly" -> FALSE

\* whether_to_embed_art with the PreferFile arm turned around.
whether_to_embed_art_inverted(art_strategy, song) ==
    CASE art_strategy = "None" -> FALSE
      [] art_strategy = "EmbedAll" -> TRUE
      [] art_strategy = "PreferFile" -> is_some(song.external_album_art)
      [] art_strategy = "FileOnly" -> FALSE

\* The embedding decision handed to the transcoder (sync_song.rs 71-76).
whether_to_embed_art(art_strategy, song) ==
    CASE art_strategy = "None" -> FALSE
      [] art_strategy = "EmbedAll" -> TRUE
      [] art_strategy = "PreferFile" -> is_none(song.external_album_art)
      [] art_strategy = "FileOnly" -> FALSE

\* force_upgrade that lets force replace every status.
force_upgrade_all(status, force) ==
    IF force THEN "ForceOverwrite" ELSE status

\* force_upgrade that upgrades NoChange whether or not force is given.
force_upgrade_always(status, force) ==
    IF status = "NoChange" THEN "ForceOverwrite" ELSE status

\* force_upgrade that leaves NoChange alone.
force_upgrade_never(status, force) == status

\* The force upgrade of sync_song (sync_song.rs 59-69).
force_upgrade(status, force) ==
    IF status = "NoChange" /\ force THEN "ForceOverwrite" ELSE status

\* sync_song.  io holds what the file system and ffmpeg answer during the
\* call: hash (hash_file in the detector), record_hash (hash_file in
\* from_song), times, ffmpeg, copy_ok.  The result holds the detector's
\* status, the returned value (kind "Ok" with a record, "Err", or "Panic"),
\* the target file afterwards, the step executed, whether create_dir_all
\* was called on the parent directory of the shadow file (mkdir) and the
\* embedding decision.
sync_song(song, target, target_filetype, art_strategy, previous_sync_db, force, dry_run, io, debug_assertions) ==
    LET want == want_embedded_album_art(art_strategy, song)
        desired_bitrate == equivalent_bitrate(target_filetype)
        detected == has_music_file_changed(song, target, previous_sync_db,
                        want, desired_bitrate, io.hash, io.times,
                        debug_assertions)
        new_sync_record == from_song(song, io.record_hash)
        status == force_upgrade(detected, force)
        embed == whether_to_embed_art(art_strategy, song)
        transcoded == transcode_song(song, target, target_filetype, embed,
                                     song.external_album_art, io.ffmpeg)
    IN
    IF detected = "Panic"
    THEN [detect |-> detected, kind |-> "Panic", record |-> None,
          target |-> target, step |-> "none", mkdir |-> FALSE,
          embed |-> embed]
    ELSE IF status = "NoChange"
    THEN [detect |-> detected, kind |-> "Ok",
          record |-> Some(set_update_type(new_sync_record, status)),
          target |-> target, step |-> "none", mkdir |-> FALSE,
          embed |-> embed]
    ELSE IF dry_run
    THEN [detect |-> detected, kind |-> "Ok",
          record |-> Some(set_update_type(new_sync_record, status)),
          target |-> target, step |-> "none", mkdir |-> FALSE,
          embed |-> embed]
    ELSE IF status = "Copied"
    THEN IF io.copy_ok
         THEN [detect |-> detected, kind |-> "Ok",
               record |-> Some(set_update_type(new_sync_record, status)),
               target |-> copy_file(song), step |-> "copy", mkdir |-> TRUE,
               embed |-> embed]
         ELSE [detect |-> detected, kind |-> "Panic", record |-> None,
               target |-> target, step |-> "copy", mkdir |-> TRUE,
               embed |-> embed]
    ELSE [detect |-> detected,
          kind |-> transcoded.kind,
          record |-> IF transcoded.kind = "Ok"
                     THEN Some(set_update_type(new_sync_record, status))
                     ELSE None,
          target |-> transcoded.target, step |-> "transcode",
          mkdir |-> TRUE, embed |-> embed]

(***************************************************************************)
(* hashing.rs: the record store.                                           *)
(***************************************************************************)
\* save_record_to_previous_sync_db without the early return for NoChange.
save_record_always(previous_sync_db, sync_record) ==
    [k \in DOMAIN previous_sync_db \cup {sync_record.library_relative_path}
        |-> IF k = sync_record.library_relative_path
            THEN sync_record
            ELSE previous_sync_db[k]]

\* save_record_to_previous_sync_db: HashMap::insert unless the record says
\* that nothing changed.
save_record_to_previous_sync_db(previous_sync_db, sync_record) ==
    LET update_type == unwrap(sync_record.update_type) IN
    IF update_type = "NoChange"
    THEN previous_sync_db
    ELSE [k \in DOMAIN previous_sync_db \cup {sync_record.library_relative_path}
            |-> IF k = sync_record.library_relative_path
                THEN sync_record
                ELSE previous_sync_db[k]]

\* The records file is None (no file), or a file that parses to a store, or
\* a file that does not parse.
EmptyDb == << >>
ParsedFile(db) == Some([parses |-> TRUE, db |-> db])
CorruptFile == Some([parses |-> FALSE, db |-> EmptyDb])

\* Loading the store at the start of a run: the store if the file parses,
\* no store otherwise.
read_records_of_previous_sync(file) ==
    IF is_some(file) /\ unwrap(file).parses
    THEN Some(unwrap(file).db)
    ELSE None

\* write_sync_db_to_file: File::create truncates the file before the store
\* is serialised into it.  written is "ok", "fail_create" or "fail_write".
write_sync_db_to_file(file, previous_sync_db, written) ==
    CASE written = "ok" -> ParsedFile(previous_sync_db)
      [] written = "fail_create" -> file
      [] written = "fail_write" -> CorruptFile

(***************************************************************************)
(* The library of the model.                                               *)
(***************************************************************************)
PathA == [stem |-> "a", ext |-> "flac"]
PathB == [stem |-> "b", ext |-> "mp3"]
\* A file next to PathA that differs from it in the extension only.
PathC == [stem |-> "a", ext |-> "mp3"]
\* The library-relative paths, in the order of their absolute paths.
SortedLibraryPaths == <<PathA, PathC, PathB>>
LibraryPaths == {SortedLibraryPaths[i] : i \in 1..Len(SortedLibraryPaths)}

CoverArt == Some("cover.jpg")

\* Song values as Song::new builds them for a path.
SongsAt(path, titles, bitrates) ==
    [library_relative_path : {path},
     external_album_art : {None, CoverArt},
     metadata : [title : {Some(t) : t \in titles},
                 bitrate_kbps : bitrates,
                 has_embedded_album_art : BOOLEAN]]

\* Target encodings of the command line.
TargetFileTypes == {Mp3VBR(6), Opus(96)}

Clis(filetypes) ==
    [target_filetype : filetypes,
     art_strategy : ArtStrategy,
     force : BOOLEAN,
     dry_run : BOOLEAN,
     dont_save_records : BOOLEAN]

FfmpegOutcomes == {"ok", "fail_untouched", "fail_partial"}
WriteOutcomes == {"ok", "fail_create", "fail_write"}

ShadowPaths ==
    {get_shadow_filename(p, ft) : p \in LibraryPaths, ft \in TargetFileTypes}

\* Files that can stand in the target library at a shadow path.  stale is
\* the set of sources modified after the file was created.
TargetFilesOf(path) ==
    [probe : {"ok"}, title : {Some(t) : t \in Titles},
     has_embedded_album_art : BOOLEAN, stale : SUBSET {path}]
    \cup
    [probe : {"err"}, title : {None},
     has_embedded_album_art : {FALSE}, stale : SUBSET {path}]

(***************************************************************************)
(* State.                                                                  *)
(***************************************************************************)
VARIABLES
    songs,            \* source library: path -> Song, as discovery builds it
    content,          \* source library: path -> content hash of the file
    target_files,     \* target library: shadow path -> Option<file>
    records_file,     \* the records file of the target library
    platform,         \* [debug_assertions, birth_time]: build and file system
    pc,               \* position of main: idle, syncing, merged, aborted
    runs,             \* number of runs started
    cli,              \* command line of the current run
    previous_sync_db, \* Option<PreviousSyncDb> loaded by the current run
    sync_results,     \* path -> Option<[ok, record]>: results collected
    new_records,      \* Option<PreviousSyncDb>: the merged records
    last,             \* the most recent sync_song call and its result
    clean_run,        \* the last run synced every song and saved its records,
                      \* and nothing was touched since
    faults_left,      \* I/O failures that may still happen
    edits_left,       \* changes the user may still make
    cover_arts,       \* target library: the cover art files present in it
    elsewhere,        \* the records files in the working and home directory
    store_call        \* the most recent load or save of the record store

vars == <<songs, content, target_files, records_file, platform, pc, runs,
          cli, previous_sync_db, sync_results, new_records, last, clean_run,
          faults_left, edits_left, cover_arts, elsewhere, store_call>>

(***************************************************************************)
(* What the file system answers to a sync_song call on path p.             *)
(***************************************************************************)
\* has_source_changed_after_target_has_been_created: Err where the file
\* system has no creation time, else whether the source was modified after
\* the target file was created.
has_source_changed_after_target_has_been_created(p, target) ==
    IF ~platform.birth_time \/ is_none(target) THEN "Err"
    ELSE IF p \in unwrap(target).stale THEN "Newer"
    ELSE "Older"

\* A file written onto the shadow path: a file that was there is truncated
\* and keeps its creation time, a new file is younger than every source.
written_file(before, after) ==
    IF is_none(after) THEN after
    ELSE Some([probe |-> unwrap(after).probe,
               title |-> unwrap(after).title,
               has_embedded_album_art |->
                   unwrap(after).has_embedded_album_art,
               stale |-> IF is_some(before) THEN unwrap(before).stale
                         ELSE {}])

\* The number of failures among the answers of one sync_song call.
failures(readable, record_readable, ffmpeg, copy_ok) ==
    (IF readable THEN 0 ELSE 1) + (IF record_readable THEN 0 ELSE 1)
    + (IF ffmpeg = "ok" THEN 0 ELSE 1) + (IF copy_ok THEN 0 ELSE 1)

\* The command line between runs: the flags are given anew for every run.
Flagless(c) ==
    [c EXCEPT !.force = FALSE, !.dry_run = FALSE,
              !.dont_save_records = FALSE]

NoResults == [p \in LibraryPaths |-> None]

\* The directories besides the target library where a records file is
\* looked for, and the state in which neither holds one.
OtherDirs == {"pwd", "home"}
NoRecordsElsewhere == [d \in OtherDirs |-> None]

(***************************************************************************)
(* main: one run.                                                          *)
(***************************************************************************)
\* main up to the parallel phase: the command line is parsed, the songs are
\* discovered and the records of the previous sync are loaded.
StartRun ==
    /\ pc \in {"idle", "aborted"}
    /\ runs < MaxRuns
    /\ \E force, dry_run, dont_save_records \in BOOLEAN :
         cli' = [cli EXCEPT !.force = force, !.dry_run = dry_run,
                            !.dont_save_records = dont_save_records]
    /\ previous_sync_db' = read_records_of_previous_sync(records_file)
    /\ sync_results' = NoResults
    /\ pc' = "syncing"
    /\ runs' = runs + 1
    /\ last' = None
    /\ UNCHANGED <<songs, content, target_files, records_file, platform,
                   new_records, clean_run, faults_left, edits_left,
                   cover_arts, elsewhere, store_call>>

\* One task of the parallel map: sync_song on the song at path p.  A panic
\* inside the task ends the process.
SyncSong(p) ==
    /\ pc = "syncing"
    /\ p \in DOMAIN songs
    /\ is_none(sync_results[p])
    /\ \E readable, record_readable, copy_ok \in BOOLEAN,
          ffmpeg \in FfmpegOutcomes :
         LET shadow == get_shadow_filename(p, cli.target_filetype)
             before == target_files[shadow]
             io == [hash |-> hash_file(content[p], readable),
                    record_hash |-> hash_file(content[p], record_readable),
                    times |->
                      has_source_changed_after_target_has_been_created(
                          p, before),
                    ffmpeg |-> ffmpeg,
                    copy_ok |-> copy_ok]
             r == sync_song(songs[p], before, cli.target_filetype,
                            cli.art_strategy, previous_sync_db, cli.force,
                            cli.dry_run, io, platform.debug_assertions)
         IN
         /\ r.step # "transcode" => ffmpeg = "ok"
         /\ r.step # "copy" => copy_ok
         /\ failures(readable, record_readable, ffmpeg, copy_ok)
                <= faults_left
         /\ faults_left' = faults_left
                - failures(readable, record_readable, ffmpeg, copy_ok)
         /\ target_files' =
                [target_files EXCEPT ![shadow] =
                    IF r.step = "none" THEN before
                    ELSE written_file(before, r.target)]
         /\ last' = Some([path |-> p, song |-> songs[p], before |-> before,
                          hash |-> io.hash, times |-> io.times,
                          detect |-> r.detect, kind |-> r.kind,
                          record |-> r.record, step |-> r.step,
                          mkdir |-> r.mkdir, embed |-> r.embed])
         /\ IF r.kind = "Panic"
            THEN /\ pc' = "aborted"
                 /\ sync_results' = NoResults
                 /\ clean_run' = FALSE
            ELSE /\ pc' = pc
                 /\ sync_results' =
                        [sync_results EXCEPT ![p] =
                            Some([ok |-> r.kind = "Ok", record |-> r.record])]
                 /\ clean_run' = clean_run
    /\ UNCHANGED <<songs, content, records_file, platform, runs, cli,
                   previous_sync_db, new_records, edits_left, cover_arts,
                   elsewhere, store_call>>

\* A cover art file of the target library: its library-relative path and
\* whether its content is that of the source's cover ("source") or another
\* ("other").
CoverFile(path, bytes) == [path |-> path, content |-> bytes]

\* fs::exists on the shadow path of a cover.
cover_exists(covers, shadow) == \E f \in covers : f.path = shadow

\* copy_dedicated_cover_art_for_song with the test for an existing file
\* left out: the cover is copied over what is there.
copy_dedicated_cover_art_overwriting(song, covers, dry_run, copied) ==
    IF is_none(song.external_album_art) THEN covers
    ELSE LET shadow == unwrap(song.external_album_art) IN
         IF ~dry_run /\ copied
         THEN {f \in covers : f.path # shadow}
              \cup {CoverFile(shadow, "source")}
         ELSE covers

\* copy_dedicated_cover_art_for_song: the cover art files of the target
\* library after the call.  A cover that is already there is left alone; a
\* failing copy is ignored.
copy_dedicated_cover_art_for_song(song, covers, dry_run, copied) ==
    IF is_none(song.external_album_art) THEN covers
    ELSE LET shadow == unwrap(song.external_album_art) IN
         IF ~cover_exists(covers, shadow) /\ ~dry_run /\ copied
         THEN covers \cup {CoverFile(shadow, "source")}
         ELSE covers

\* The loop of main over the songs that copies their cover art, from index
\* i on.
RECURSIVE copy_cover_arts(_, _, _, _)
copy_cover_arts(covers, i, dry_run, copied) ==
    IF i > Len(SortedLibraryPaths) THEN covers
    ELSE LET p == SortedLibraryPaths[i] IN
         IF p \in DOMAIN songs
         THEN copy_cover_arts(
                  copy_dedicated_cover_art_for_song(songs[p], covers,
                                                    dry_run, copied),
                  i + 1, dry_run, copied)
         ELSE copy_cover_arts(covers, i + 1, dry_run, copied)

\* The cover art step of main without the test for a dry run.
CopyCoverArts_always(copied) ==
    /\ ~copied =>
          (copy_cover_arts(cover_arts, 1, FALSE, TRUE) # cover_arts
           /\ faults_left > 0)
    /\ cover_arts' = copy_cover_arts(cover_arts, 1, FALSE, copied)
    /\ faults_left' = IF copied THEN faults_left ELSE faults_left - 1

\* main after the parallel phase: the cover art of every song is copied,
\* unless the run is a dry run.  copied is whether the copy succeeds.
CopyCoverArts(copied) ==
    LET after == IF cli.dry_run THEN cover_arts
                 ELSE copy_cover_arts(cover_arts, 1, cli.dry_run, TRUE)
    IN
    /\ ~copied => (after # cover_arts /\ faults_left > 0)
    /\ cover_arts' =
           IF cli.dry_run THEN cover_arts
           ELSE copy_cover_arts(cover_arts, 1, cli.dry_run, copied)
    /\ faults_left' = IF copied THEN faults_left ELSE faults_left - 1

\* The merge loop of main over the sorted results, from index i on.
RECURSIVE merge_results(_, _, _)
merge_results(records, results, i) ==
    IF i > Len(SortedLibraryPaths) THEN records
    ELSE LET p == SortedLibraryPaths[i] IN
         IF p \in DOMAIN results /\ is_some(results[p])
            /\ unwrap(results[p]).ok
         THEN merge_results(
                  save_record_to_previous_sync_db(
                      records, unwrap(unwrap(results[p]).record)),
                  results, i + 1)
         ELSE merge_results(records, results, i + 1)

\* unwrap_or_default that drops the loaded store.
unwrap_or_default_dropped(db) == EmptyDb

\* previous_sync_db.unwrap_or_default()
unwrap_or_default(db) == IF is_some(db) THEN unwrap(db) ELSE EmptyDb

AllSynced == \A p \in DOMAIN songs : is_some(sync_results[p])

\* summarize: the counters before the loop over the results.
NoCounts ==
    [n_unchanged |-> 0, n_new |-> 0, n_overwritten |-> 0, n_err |-> 0,
     n_missing_target |-> 0, n_copied |-> 0]

\* One turn of the loop of summarize in which a forced overwrite is not
\* counted.
tally_unforced(counts, r) ==
    IF ~r.ok THEN [counts EXCEPT !.n_err = @ + 1]
    ELSE LET update_type == unwrap(unwrap(r.record).update_type) IN
         CASE update_type = "NoChange" ->
                  [counts EXCEPT !.n_unchanged = @ + 1]
           [] update_type = "NewTranscode" -> [counts EXCEPT !.n_new = @ + 1]
           [] update_type = "Overwrite" ->
                  [counts EXCEPT !.n_overwritten = @ + 1]
           [] update_type = "ForceOverwrite" -> counts
           [] update_type = "TranscodeMissingTarget" ->
                  [counts EXCEPT !.n_missing_target = @ + 1]
           [] update_type = "Copied" -> [counts EXCEPT !.n_copied = @ + 1]

\* One turn of the loop of summarize: the result r of one song is counted.
tally(counts, r) ==
    IF ~r.ok THEN [counts EXCEPT !.n_err = @ + 1]
    ELSE LET update_type == unwrap(unwrap(r.record).update_type) IN
         CASE update_type = "NoChange" ->
                  [counts EXCEPT !.n_unchanged = @ + 1]
           [] update_type = "NewTranscode" -> [counts EXCEPT !.n_new = @ + 1]
           [] update_type = "Overwrite" ->
                  [counts EXCEPT !.n_overwritten = @ + 1]
           [] update_type = "ForceOverwrite" ->
                  [counts EXCEPT !.n_overwritten = @ + 1]
           [] update_type = "TranscodeMissingTarget" ->
                  [counts EXCEPT !.n_missing_target = @ + 1]
           [] update_type = "Copied" -> [counts EXCEPT !.n_copied = @ + 1]

\* summarize: the counters after the loop over the sorted results, from
\* index i on.
RECURSIVE summarize(_, _, _)
summarize(counts, results, i) ==
    IF i > Len(SortedLibraryPaths) THEN counts
    ELSE LET p == SortedLibraryPaths[i] IN
         IF p \in DOMAIN results /\ is_some(results[p])
         THEN summarize(tally(counts, unwrap(results[p])), results, i + 1)
         ELSE summarize(counts, results, i + 1)

\* main after the parallel phase, when records are saved: the cover art is
\* copied and the results are merged into the records carried over from the
\* previous sync.
MergeRecords ==
    /\ pc = "syncing"
    /\ AllSynced
    /\ ~cli.dont_save_records /\ ~cli.dry_run
    /\ new_records' =
           Some(merge_results(unwrap_or_default(previous_sync_db),
                              sync_results, 1))
    /\ \E copied \in BOOLEAN : CopyCoverArts(copied)
    /\ pc' = "merged"
    /\ UNCHANGED <<songs, content, target_files, records_file, platform,
                   runs, cli, previous_sync_db, sync_results, last,
                   clean_run, edits_left, elsewhere, store_call>>

\* The merged records are written and main returns.
WriteRecords ==
    /\ pc = "merged"
    /\ \E written \in WriteOutcomes :
         /\ written # "ok" => faults_left > 0
         /\ faults_left' = IF written = "ok" THEN faults_left
                           ELSE faults_left - 1
         /\ records_file' =
                write_sync_db_to_file(records_file, unwrap(new_records),
                                      written)
         /\ clean_run' = /\ written = "ok"
                         /\ \A p \in DOMAIN songs :
                               unwrap(sync_results[p]).ok
    /\ pc' = "idle"
    /\ cli' = Flagless(cli)
    /\ previous_sync_db' = None
    /\ sync_results' = NoResults
    /\ new_records' = None
    /\ last' = None
    /\ UNCHANGED <<songs, content, target_files, platform, runs,
                   edits_left, cover_arts, elsewhere, store_call>>

\* main after the parallel phase of a dry run or of a run that does not
\* save records: the cover art is copied unless the run is a dry run, and
\* main returns.
FinishWithoutRecords ==
    /\ pc = "syncing"
    /\ AllSynced
    /\ cli.dont_save_records \/ cli.dry_run
    /\ pc' = "idle"
    /\ cli' = Flagless(cli)
    /\ previous_sync_db' = None
    /\ sync_results' = NoResults
    /\ last' = None
    /\ clean_run' = FALSE
    /\ \E copied \in BOOLEAN : CopyCoverArts(copied)
    /\ UNCHANGED <<songs, content, target_files, records_file, platform,
                   runs, new_records, edits_left, elsewhere, store_call>>

(***************************************************************************)
(* The user between two runs.                                              *)
(***************************************************************************)
\* A source file is edited: new content, possibly a new title; every file
\* of the target library made from it is now older than it.
ModifySource(p) ==
    /\ pc \in {"idle", "aborted"}
    /\ runs >= 1 /\ runs < MaxRuns
    /\ edits_left > 0
    /\ edits_left' = edits_left - 1
    /\ p \in DOMAIN songs
    /\ \E h \in Hashes \ {content[p]}, t \in Titles :
         /\ content' = [content EXCEPT ![p] = h]
         /\ songs' = [songs EXCEPT ![p].metadata.title = Some(t)]
    /\ target_files' =
           [sh \in DOMAIN target_files |->
               IF is_some(target_files[sh]) /\ sh.stem = p.stem
               THEN Some([unwrap(target_files[sh]) EXCEPT
                             !.stale = @ \cup {p}])
               ELSE target_files[sh]]
    /\ clean_run' = FALSE
    /\ last' = None
    /\ UNCHANGED <<records_file, platform, pc, runs, cli, previous_sync_db,
                   sync_results, new_records, faults_left, cover_arts,
                   elsewhere, store_call>>

\* A file of the target library is deleted.
DeleteTarget(sh) ==
    /\ pc \in {"idle", "aborted"}
    /\ runs >= 1 /\ runs < MaxRuns
    /\ edits_left > 0
    /\ edits_left' = edits_left - 1
    /\ is_some(target_files[sh])
    /\ target_files' = [target_files EXCEPT ![sh] = None]
    /\ clean_run' = FALSE
    /\ last' = None
    /\ UNCHANGED <<songs, content, records_file, platform, pc, runs, cli,
                   previous_sync_db, sync_results, new_records, faults_left,
                   cover_arts, elsewhere, store_call>>

(***************************************************************************)
(* Spec: runs of main over a library of two songs, from an empty target   *)
(* library, with a release build on a file system with creation times.    *)
(* The first song is below the target bitrate and has no embedded art.    *)
(***************************************************************************)
Platforms == [debug_assertions : BOOLEAN, birth_time : BOOLEAN]

\* The second song of the library: above the target bitrate, with embedded
\* art and no cover file.
SongB ==
    [library_relative_path |-> PathB, external_album_art |-> None,
     metadata |-> [title |-> Some("t1"), bitrate_kbps |-> 128,
                   has_embedded_album_art |-> TRUE]]

Init ==
    /\ \E a \in SongsAt(PathA, {"t1"}, {96}) :
         /\ ~a.metadata.has_embedded_album_art
         /\ songs = [p \in {PathA, PathB} |-> IF p = PathA THEN a ELSE SongB]
    /\ content = [p \in LibraryPaths |-> 1]
    /\ target_files = [sh \in ShadowPaths |-> None]
    /\ records_file = None
    /\ platform = [debug_assertions |-> FALSE, birth_time |-> TRUE]
    /\ pc = "idle"
    /\ runs = 0
    /\ cli \in {c \in Clis({Mp3VBR(6)}) :
                  ~c.force /\ ~c.dry_run /\ ~c.dont_save_records}
    /\ previous_sync_db = None
    /\ sync_results = NoResults
    /\ new_records = None
    /\ last = None
    /\ clean_run = FALSE
    /\ faults_left = MaxFaults
    /\ edits_left = MaxEdits
    /\ cover_arts = {}
    /\ elsewhere = NoRecordsElsewhere
    /\ store_call = None

Next ==
    \/ StartRun
    \/ \E p \in LibraryPaths : SyncSong(p)
    \/ MergeRecords
    \/ WriteRecords
    \/ FinishWithoutRecords
    \/ \E p \in LibraryPaths : ModifySource(p)
    \/ \E sh \in ShadowPaths : DeleteTarget(sh)

Spec == Init /\ [][Next]_vars

(***************************************************************************)
(* SpecSong: one sync_song call on one song, in any state of the target   *)
(* library and of the previous sync's records, on any platform.           *)
(***************************************************************************)
\* Records a previous sync can have left for a path.
RecordsOf(path) ==
    [library_relative_path : {path},
     update_type : {Some("NewTranscode")},
     hash : {None} \cup {Some(h) : h \in Hashes}]

\* The stores a run can load: none, an empty one, one with a record for
\* the song, one with a record for another song only.
PreviousSyncDbs ==
    {None, Some(EmptyDb)}
    \cup {Some([p \in {PathA} |-> r]) : r \in RecordsOf(PathA)}
    \cup {Some([p \in {PathB} |-> r]) :
             r \in {x \in RecordsOf(PathB) : x.hash = Some(1)}}

\* The failures one sync_song call can meet.
CallFailures == Cardinality({"hash_file", "from_song", "ffmpeg", "copy"})

SongInit ==
    /\ \E a \in SongsAt(PathA, {"t1"}, BitRates) : songs = [p \in {PathA} |-> a]
    /\ content = [p \in LibraryPaths |-> 1]
    /\ cli \in {c \in Clis({Mp3VBR(6)}) : ~c.dont_save_records}
    /\ \E f \in {None} \cup {Some(x) : x \in TargetFilesOf(PathA)} :
         target_files =
             [sh \in ShadowPaths |->
                 IF sh = get_shadow_filename(PathA, Mp3VBR(6))
                 THEN f ELSE None]
    /\ records_file = None
    /\ platform \in Platforms
    /\ pc = "syncing"
    /\ runs = 1
    /\ previous_sync_db \in PreviousSyncDbs
    /\ sync_results = NoResults
    /\ new_records = None
    /\ last = None
    /\ clean_run = FALSE
    /\ faults_left = CallFailures
    /\ edits_left = 0
    /\ cover_arts = {}
    /\ elsewhere = NoRecordsElsewhere
    /\ store_call = None

NextSong == \E p \in LibraryPaths : SyncSong(p)

SpecSong == SongInit /\ [][NextSong]_vars

(***************************************************************************)
(* SpecRun: one run of main from its parallel phase on, over a library of *)
(* two songs, from any command line and several states of the target      *)
(* library and of the records of the previous sync.                       *)
(***************************************************************************)
\* The second song of the library at path q: above the target bitrate,
\* with embedded art and no cover file.
SecondSong(q) == [SongB EXCEPT !.library_relative_path = q]

\* What the previous sync can have left: nothing, or a records file with a
\* record of the first song.
LeftRecords ==
    {None,
     Some([p \in {PathA} |->
              [library_relative_path |-> PathA,
               update_type |-> Some("NewTranscode"), hash |-> Some(1)]])}

RunInit ==
    /\ \E a \in SongsAt(PathA, {"t1"}, {96, 128}), q \in {PathB, PathC} :
         songs = [p \in {PathA, q} |-> IF p = PathA THEN a ELSE SecondSong(q)]
    /\ content = [p \in LibraryPaths |-> 1]
    /\ \E f \in {None} \cup {Some(x) : x \in
                  {t \in TargetFilesOf(PathA) :
                      t.stale = {} /\ t.title = Some("t1")}} :
         target_files =
             [sh \in ShadowPaths |->
                 IF sh = get_shadow_filename(PathA, Mp3VBR(6))
                 THEN f ELSE None]
    /\ \E db \in LeftRecords :
         /\ previous_sync_db = db
         /\ records_file = IF is_some(db) THEN ParsedFile(unwrap(db)) ELSE None
    /\ platform = [debug_assertions |-> FALSE, birth_time |-> TRUE]
    /\ pc = "syncing"
    /\ runs = 1
    /\ cli \in Clis({Mp3VBR(6)})
    /\ sync_results = NoResults
    /\ new_records = None
    /\ last = None
    /\ clean_run = FALSE
    /\ faults_left = MaxFaults
    /\ edits_left = 0
    /\ cover_arts = {}
    /\ elsewhere = NoRecordsElsewhere
    /\ store_call = None

NextRun ==
    \/ \E p \in LibraryPaths : SyncSong(p)
    \/ MergeRecords
    \/ WriteRecords
    \/ FinishWithoutRecords

SpecRun == RunInit /\ [][NextRun]_vars

(***************************************************************************)
(* SpecPar: the first run of main on an empty target library with no      *)
(* records, from its parallel phase on.  The tasks of the parallel map    *)
(* run in any order.                                                      *)
(***************************************************************************)
ParInit ==
    /\ RunInit
    /\ \A sh \in ShadowPaths : is_none(target_files[sh])
    /\ is_none(previous_sync_db)

SpecPar == ParInit /\ [][NextRun]_vars

(***************************************************************************)
(* SpecMain: runs of main from its first line, with or without a target   *)
(* library directory, with an mp3 or a flac target encoding.              *)
(***************************************************************************)
\* Target encodings of the command line, flac among them.
MainFileTypes == {Mp3VBR(6), Flac(5)}

MainShadowPaths ==
    {get_shadow_filename(p, ft) : p \in LibraryPaths, ft \in MainFileTypes}

\* main up to the parallel phase.  When the target library is not a
\* directory main returns TargetLibraryDoesNotExist after discovery; else
\* it goes on as StartRun does.
StartMain ==
    IF platform.target_library_is_dir
    THEN StartRun
    ELSE /\ pc = "idle"
         /\ runs < MaxRuns
         /\ \E force, dry_run, dont_save_records \in BOOLEAN :
              cli' = [cli EXCEPT !.force = force, !.dry_run = dry_run,
                                 !.dont_save_records = dont_save_records]
         /\ pc' = "error"
         /\ runs' = runs + 1
         /\ UNCHANGED <<songs, content, target_files, records_file, platform,
                        previous_sync_db, sync_results, new_records, last,
                        clean_run, faults_left, edits_left, cover_arts,
                        elsewhere, store_call>>

MainInit ==
    /\ \E a \in SongsAt(PathA, {"t1"}, {96, 900}) :
         /\ ~a.metadata.has_embedded_album_art
         /\ songs = [p \in {PathA, PathB} |-> IF p = PathA THEN a ELSE SongB]
    /\ content = [p \in LibraryPaths |-> 1]
    /\ target_files = [sh \in MainShadowPaths |-> None]
    /\ records_file = None
    /\ platform \in [debug_assertions : {FALSE}, birth_time : {TRUE},
                     target_library_is_dir : BOOLEAN]
    /\ pc = "idle"
    /\ runs = 0
    /\ cli \in {c \in Clis(MainFileTypes) : c = Flagless(c)}
    /\ previous_sync_db = None
    /\ sync_results = NoResults
    /\ new_records = None
    /\ last = None
    /\ clean_run = FALSE
    /\ faults_left = MaxFaults
    /\ edits_left = 0
    /\ cover_arts = {}
    /\ elsewhere = NoRecordsElsewhere
    /\ store_call = None

NextMain ==
    \/ StartMain
    \/ \E p \in LibraryPaths : SyncSong(p)
    \/ MergeRecords
    \/ WriteRecords
    \/ FinishWithoutRecords

SpecMain == MainInit /\ [][NextMain]_vars

(***************************************************************************)
(* hashing.rs: the candidate locations of the record store.                *)
(***************************************************************************)
\* A path: the file called name in directory dir, or the directory itself
\* when name is None.
PREVIOUS_SYNC_DB_FILENAME == "bopsync.dat"
FileIn(dir, name) == [dir |-> dir, name |-> Some(name)]
Directory(dir) == [dir |-> dir, name |-> None]

\* generate_potential_locations_for_database_file: the records file of the
\* target library, then what current_dir() and home_dir() return, when they
\* return something.
generate_potential_locations_for_database_file(pwd_ok, home_ok) ==
    <<FileIn("target", PREVIOUS_SYNC_DB_FILENAME)>>
    \o (IF pwd_ok THEN <<Directory("pwd")>> ELSE << >>)
    \o (IF home_ok THEN <<Directory("home")>> ELSE << >>)

\* The records files of the three directories as one file system.
StoreFiles(target_file, other_files) ==
    [d \in {"target"} \cup OtherDirs |->
        IF d = "target" THEN target_file ELSE other_files[d]]

\* load_previous_sync: what File::open and serde_json::from_reader give for
\* a path.  Reading a directory fails.
load_previous_sync(files, path) ==
    IF is_none(path.name) THEN None
    ELSE read_records_of_previous_sync(files[path.dir])

\* try_read_records: the store of the first candidate that loads, from
\* index i on; an empty store when none does.
RECURSIVE try_read_records(_, _, _)
try_read_records(files, file_candidates, i) ==
    IF i > Len(file_candidates) THEN EmptyDb
    ELSE LET x == load_previous_sync(files, file_candidates[i]) IN
         IF is_some(x) THEN unwrap(x)
         ELSE try_read_records(files, file_candidates, i + 1)

\* write_sync_db_to_file on a path, with the result of to_writer ignored.
write_to_path_unchecked(files, path, db, written) ==
    IF is_none(path.name)
    THEN [files |-> files, success |-> FALSE]
    ELSE [files |-> [files EXCEPT ![path.dir] =
                        write_sync_db_to_file(files[path.dir],
                            db, written[path.dir])],
          success |-> written[path.dir] # "fail_create"]

\* write_sync_db_to_file on a path: File::create on a directory fails.
write_to_path(files, path, db, written) ==
    IF is_none(path.name)
    THEN [files |-> files, success |-> FALSE]
    ELSE [files |-> [files EXCEPT ![path.dir] =
                        write_sync_db_to_file(files[path.dir],
                            db, written[path.dir])],
          success |-> written[path.dir] = "ok"]

\* try_write_records: the candidates are written in order, from index i
\* on, until one write succeeds.
RECURSIVE try_write_records(_, _, _, _, _)
try_write_records(files, db, file_candidates, written, i) ==
    IF i > Len(file_candidates) THEN [files |-> files, success |-> FALSE]
    ELSE LET w == write_to_path(files, file_candidates[i],
                                db, written)
         IN IF w.success THEN w
            ELSE try_write_records(w.files, db,
                                   file_candidates, written, i + 1)

(***************************************************************************)
(* SpecStore: loading and saving the record store, with any records file  *)
(* in the target library, the working directory and the home directory.   *)
(***************************************************************************)
\* The stores of a library with one song.
StoreDbs ==
    {EmptyDb}
    \cup {[p \in {PathA} |-> r] : r \in {x \in RecordsOf(PathA) : is_some(x.hash)}}

\* What can stand at the place of a records file.
StoredFiles == {None, CorruptFile} \cup {ParsedFile(db) : db \in StoreDbs}

\* What creating and writing a file in each directory can answer.
WriteAnswers == [{"target"} \cup OtherDirs -> WriteOutcomes]

\* The store that the call before this one saved, when that call was a
\* save that succeeded.
JustSaved ==
    IF is_some(store_call)
    THEN IF unwrap(store_call).op = "save" /\ unwrap(store_call).success
         THEN Some(unwrap(store_call).db) ELSE None
    ELSE None

\* try_read_records at the start of a run: of the first run, or of the run
\* that follows a run that saved.
LoadStore ==
    /\ IF is_some(store_call)
       THEN unwrap(store_call).op = "save" /\ runs < MaxRuns
       ELSE TRUE
    /\ runs' = IF is_some(store_call) THEN runs + 1 ELSE runs
    /\ \E pwd_ok, home_ok \in BOOLEAN :
         LET files == StoreFiles(records_file, elsewhere)
             file_candidates ==
                 generate_potential_locations_for_database_file(pwd_ok,
                                                                home_ok)
         IN store_call' =
                Some([op |-> "load", pwd_ok |-> pwd_ok, home_ok |-> home_ok,
                      before |-> files, written |-> None, success |-> TRUE,
                      db |-> try_read_records(files, file_candidates, 1),
                      saved |-> JustSaved])
    /\ UNCHANGED <<songs, content, target_files, records_file, platform, pc,
                   cli, previous_sync_db, sync_results, new_records,
                   last, clean_run, faults_left, edits_left, cover_arts,
                   elsewhere>>

\* try_write_records at the end of the first run, with the merged records.
SaveStore ==
    /\ runs = 1
    /\ IF is_some(store_call) THEN unwrap(store_call).op = "load" ELSE TRUE
    /\ \E pwd_ok, home_ok \in BOOLEAN, written \in WriteAnswers :
         LET files == StoreFiles(records_file, elsewhere)
             file_candidates ==
                 generate_potential_locations_for_database_file(pwd_ok,
                                                                home_ok)
             w == try_write_records(files, unwrap(new_records),
                                    file_candidates, written, 1)
         IN /\ records_file' = w.files["target"]
            /\ elsewhere' = [d \in OtherDirs |-> w.files[d]]
            /\ store_call' =
                   Some([op |-> "save", pwd_ok |-> pwd_ok,
                         home_ok |-> home_ok, before |-> files,
                         written |-> Some(written), success |-> w.success,
                         db |-> unwrap(new_records), saved |-> None])
    /\ UNCHANGED <<songs, content, target_files, platform, pc, runs, cli,
                   previous_sync_db, sync_results, new_records, last,
                   clean_run, faults_left, edits_left, cover_arts>>

StoreInit ==
    /\ songs = [p \in {PathA} |->
                   [library_relative_path |-> PathA,
                    external_album_art |-> None,
                    metadata |-> [title |-> Some("t1"), bitrate_kbps |-> 128,
                                  has_embedded_album_art |-> FALSE]]]
    /\ content = [p \in LibraryPaths |-> 1]
    /\ target_files = [sh \in ShadowPaths |-> None]
    /\ records_file \in StoredFiles
    /\ elsewhere \in [OtherDirs -> StoredFiles]
    /\ platform = [debug_assertions |-> FALSE, birth_time |-> TRUE]
    /\ pc = "merged"
    /\ runs = 1
    /\ cli \in {c \in Clis({Mp3VBR(6)}) :
                  c.art_strategy = "None" /\ c = Flagless(c)}
    /\ previous_sync_db = None
    /\ sync_results = NoResults
    /\ new_records \in {Some(db) : db \in StoreDbs}
    /\ last = None
    /\ clean_run = FALSE
    /\ faults_left = 0
    /\ edits_left = 0
    /\ cover_arts = {}
    /\ store_call = None

NextStore == LoadStore \/ SaveStore

SpecStore == StoreInit /\ [][NextStore]_vars

(***************************************************************************)
(* SpecMerge: the end-of-run merge of main, from any results the parallel *)
(* phase can hand it and any store the run can have loaded.               *)
(***************************************************************************)
\* What sync_song can return for the song at a path: an error, or a record
\* of the song with its outcome set.
ResultsOf(path) ==
    {[ok |-> FALSE, record |-> None]}
    \cup {[ok |-> TRUE,
           record |-> Some(set_update_type(
                          [library_relative_path |-> path,
                           update_type |-> None, hash |-> h], u))] :
             h \in {None} \cup {Some(x) : x \in Hashes}, u \in UpdateType}

\* The stores a run can load for the library: none, or one with a record
\* for any of its songs and for a path that is no longer a song of it.
LoadedDbs ==
    {None} \cup
    UNION {{Some(db) : db \in
               {f \in [paths -> UNION {RecordsOf(q) : q \in paths}] :
                   \A q \in paths : f[q].library_relative_path = q}} :
              paths \in SUBSET LibraryPaths}

MergeInit ==
    /\ \E a \in SongsAt(PathA, {"t1"}, {96}) :
         /\ ~a.metadata.has_embedded_album_art
         /\ is_none(a.external_album_art)
         /\ songs = [p \in {PathA, PathB} |-> IF p = PathA THEN a ELSE SongB]
    /\ content = [p \in LibraryPaths |-> 1]
    /\ target_files = [sh \in ShadowPaths |-> None]
    /\ records_file = None
    /\ platform = [debug_assertions |-> FALSE, birth_time |-> TRUE]
    /\ pc = "syncing"
    /\ runs = 1
    /\ cli \in {c \in Clis({Mp3VBR(6)}) :
                  c.art_strategy = "None" /\ c = Flagless(c)}
    /\ previous_sync_db \in LoadedDbs
    /\ \E ra \in ResultsOf(PathA), rb \in ResultsOf(PathB) :
         sync_results =
             [p \in LibraryPaths |->
                 IF p = PathA THEN Some(ra)
                 ELSE IF p = PathB THEN Some(rb) ELSE None]
    /\ new_records = None
    /\ last = None
    /\ clean_run = FALSE
    /\ faults_left = 0
    /\ edits_left = 0
    /\ cover_arts = {}
    /\ elsewhere = NoRecordsElsewhere
    /\ store_call = None

NextMerge == MergeRecords

SpecMerge == MergeInit /\ [][NextMerge]_vars

(***************************************************************************)
(* SpecArt: the end of a run of main, after the parallel phase, with any  *)
(* command line, with or without a cover next to the songs, and with or   *)
(* without a cover already in the target library.                        *)
(***************************************************************************)
\* The cover that can already stand in the target library: one with a
\* content of its own.
OldCover == CoverFile(unwrap(CoverArt), "other")

ArtInit ==
    /\ \E a \in SongsAt(PathA, {"t1"}, {96}) :
         songs = [p \in {PathA, PathB} |->
                     IF p = PathA THEN a
                     ELSE [SongB EXCEPT !.external_album_art =
                                            a.external_album_art]]
    /\ content = [p \in LibraryPaths |-> 1]
    /\ target_files = [sh \in ShadowPaths |-> None]
    /\ records_file = None
    /\ platform = [debug_assertions |-> FALSE, birth_time |-> TRUE]
    /\ pc = "syncing"
    /\ runs = 1
    /\ cli \in Clis({Mp3VBR(6)})
    /\ previous_sync_db = None
    /\ \E ra \in ResultsOf(PathA), rb \in ResultsOf(PathB) :
         /\ rb.ok /\ unwrap(rb.record).hash = Some(1)
         /\ unwrap(unwrap(rb.record).update_type) = "NoChange"
         /\ sync_results =
                [p \in LibraryPaths |->
                    IF p = PathA THEN Some(ra)
                    ELSE IF p = PathB THEN Some(rb) ELSE None]
    /\ new_records = None
    /\ last = None
    /\ clean_run = FALSE
    /\ faults_left = MaxFaults
    /\ edits_left = 0
    /\ cover_arts \in SUBSET {OldCover}
    /\ elsewhere = NoRecordsElsewhere
    /\ store_call = None

NextArt == MergeRecords \/ FinishWithoutRecords

SpecArt == ArtInit /\ [][NextArt]_vars

(***************************************************************************)
(* The sync_song call recorded in last.                                    *)
(***************************************************************************)
Called == is_some(last)
Call == unwrap(last)
Desired == equivalent_bitrate(cli.target_filetype)
SourceBitrate == Call.song.metadata.bitrate_kbps
\* The outcome in the record the call returned.
Returned == Called /\ Call.kind = "Ok"
Outcome == unwrap(unwrap(Call.record).update_type)
\* The previous sync's store holds a record for the song of the call.
HasRecord ==
    /\ is_some(previous_sync_db)
    /\ Call.path \in DOMAIN unwrap(previous_sync_db)
StoredHash == unwrap(previous_sync_db)[Call.path].hash
TargetExists == is_some(Call.before)
TargetProbed == TargetExists /\ unwrap(Call.before).probe = "ok"
\* The outcome the bitrate comparison gives for a file new to the target.
ByBitrate == IF SourceBitrate >= Desired THEN "NewTranscode" ELSE "Copied"

(***************************************************************************)
(* C1.  Idempotence with records: after a non-dry run in which every song *)
(* succeeded and whose records were merged and saved, a second run with   *)
(* nothing touched in between, the saved records loaded and force = false *)
(* returns NoChange for every song.                                        *)
(***************************************************************************)
C1_IdempotentWithRecords ==
    (pc \in {"syncing", "merged"} /\ clean_run /\ ~cli.force) =>
        \A p \in DOMAIN songs :
            is_some(sync_results[p]) =>
                /\ unwrap(sync_results[p]).ok
                /\ unwrap(unwrap(sync_results[p]).record).update_type
                       = Some("NoChange")

(***************************************************************************)
(* C2.  No upscaling: whenever the equivalent bitrate of the encoding is  *)
(* at least the source bitrate, the outcome of sync_song is never         *)
(* NewTranscode or Overwrite, also when the two bitrates are equal and    *)
(* when a record exists whose stored hash differs from the source hash.   *)
(***************************************************************************)
C2_NeverUpscaled ==
    (Returned /\ Desired >= SourceBitrate) =>
        Outcome \notin {"NewTranscode", "Overwrite"}

(***************************************************************************)
(* C3.  New-song decision: when the source hash can be computed, the      *)
(* target file does not exist and no store is supplied or the store has   *)
(* no record for the song, the detector returns NewTranscode if the       *)
(* source bitrate is at least the desired bitrate and Copied otherwise.   *)
(***************************************************************************)
C3_NewSongDecision ==
    (Called /\ is_some(Call.hash) /\ ~TargetExists /\ ~HasRecord) =>
        Call.detect = ByBitrate

C3_Witness ==
    /\ Called /\ is_some(Call.hash) /\ ~TargetExists /\ ~HasRecord
    /\ is_some(previous_sync_db)
    /\ SourceBitrate = Desired
    /\ Call.detect = "NewTranscode"

(***************************************************************************)
(* C4.  Missing-target detection: whenever the store holds a record for   *)
(* the song and no file exists at the target path, the detector returns   *)
(* TranscodeMissingTarget, whatever the stored hash and whether or not    *)
(* the source hash can be computed.                                        *)
(***************************************************************************)
C4_MissingTargetAlways ==
    (Called /\ HasRecord /\ ~TargetExists) =>
        Call.detect = "TranscodeMissingTarget"

ArtSituation(song) ==
    IF is_some(song.external_album_art)
    THEN IF song.metadata.has_embedded_album_art THEN "both" ELSE "external"
    ELSE IF song.metadata.has_embedded_album_art THEN "embedded" ELSE "neither"

ArtMatrix ==
    [strategy \in ArtStrategy |->
        [situation \in {"embedded", "external", "both", "neither"} |->
            CASE strategy = "None" -> FALSE
              [] strategy = "EmbedAll" -> TRUE
              [] strategy = "PreferFile" ->
                    situation \in {"embedded", "neither"}
              [] strategy = "FileOnly" -> FALSE]]

C6_ArtPolicyMatrix ==
    Called =>
        Call.embed = ArtMatrix[cli.art_strategy][ArtSituation(Call.song)]

C6_Witness ==
    /\ Called /\ Call.step = "transcode"
    /\ cli.art_strategy = "PreferFile"
    /\ ArtSituation(Call.song) = "both"
    /\ Call.embed = FALSE

(***************************************************************************)
(* C7.  Hash comparison step: when the source hash can be computed, the   *)
(* store holds a record for the song and the target file exists, the      *)
(* detector returns NoChange if the record has a stored hash equal to the *)
(* source hash and Overwrite in every other case.                          *)
(***************************************************************************)
C7_HashComparison ==
    (Called /\ is_some(Call.hash) /\ HasRecord /\ TargetExists) =>
        Call.detect = IF StoredHash = Call.hash
                      THEN "NoChange" ELSE "Overwrite"

(***************************************************************************)
(* C8.  Metadata fallback, target absent: whenever the metadata           *)
(* comparison is reached and the target file does not exist, the outcome  *)
(* is NewTranscode or Copied by the bitrate comparison, never Overwrite.  *)
(* The comparison is reached with an absent target when the source hash   *)
(* cannot be computed.                                                     *)
(***************************************************************************)
C8_FallbackTargetAbsent ==
    (Called /\ is_none(Call.hash) /\ ~TargetExists) =>
        Call.detect = ByBitrate

(***************************************************************************)
(* C9.  Metadata fallback, target present, as claimed: whenever the       *)
(* target exists and hashing failed, or no store was supplied, or the     *)
(* store has no record for the song, the detector returns NoChange iff    *)
(* the titles are equal and the target's art state is the expected one,   *)
(* and otherwise Copied when the source bitrate is below the desired      *)
(* bitrate and Overwrite when not.                                         *)
(***************************************************************************)
Want == want_embedded_album_art(cli.art_strategy, Call.song)
MetadataMatches ==
    /\ TargetProbed
    /\ unwrap(Call.before).title = Call.song.metadata.title
    /\ unwrap(Call.before).has_embedded_album_art = Want
MetadataDecision ==
    IF MetadataMatches THEN "NoChange"
    ELSE IF SourceBitrate < Desired THEN "Copied" ELSE "Overwrite"

SourceNewer ==
    is_some(Call.hash) /\ is_none(previous_sync_db) /\ Call.times = "Newer"

EntryOf(db, p) == IF p \in DOMAIN db THEN Some(db[p]) ELSE None

C10_Merge ==
    pc = "merged" =>
        \A p \in DOMAIN songs :
            LET result == unwrap(sync_results[p])
                before == EntryOf(unwrap_or_default(previous_sync_db), p)
                after == EntryOf(unwrap(new_records), p)
            IN result.ok =>
                 IF unwrap(result.record).update_type = Some("NoChange")
                 THEN after = before
                 ELSE after = result.record

C10_Witness ==
    /\ pc = "merged"
    /\ \E p, q \in DOMAIN songs :
         LET rp == unwrap(sync_results[p])
             rq == unwrap(sync_results[q])
             old == unwrap_or_default(previous_sync_db)
         IN /\ rp.ok /\ rq.ok
            /\ p \in DOMAIN old /\ q \in DOMAIN old
            /\ unwrap(rp.record).update_type = Some("NoChange")
            /\ unwrap(rq.record).update_type = Some("Overwrite")
            /\ old[q] # unwrap(rq.record)
            /\ unwrap(new_records)[p] = old[p]
            /\ unwrap(new_records)[q] = unwrap(rq.record)

(***************************************************************************)
(* C11.  Per-song failure isolation: every failure while syncing one song *)
(* (failing transcoder, failing copy of the file, other I/O error) is     *)
(* returned as an error paired with that song, and the run goes on to the *)
(* other songs, the merge and the summary: no sync_song call ends in      *)
(* anything but Ok or Err, and the run is never aborted.                  *)
(***************************************************************************)
C11_FailureIsolation ==
    Called => (Call.kind \in {"Ok", "Err"} /\ pc # "aborted")

(***************************************************************************)
(* C12.  NoChange short-circuit: when the detector returns NoChange and   *)
(* force is not given, sync_song returns Ok with a record whose outcome   *)
(* is NoChange, creates no directory, copies no file and invokes no       *)
(* transcoder; the target file is left as it was.                          *)
(***************************************************************************)
ShadowOfCall == get_shadow_filename(Call.path, cli.target_filetype)

C12_NoChangeShortCircuit ==
    (Called /\ Call.detect = "NoChange" /\ ~cli.force) =>
        /\ Returned
        /\ Outcome = "NoChange"
        /\ Call.step = "none"
        /\ ~Call.mkdir
        /\ target_files[ShadowOfCall] = Call.before

C12_Witness ==
    /\ Called /\ Call.detect = "NoChange" /\ ~cli.force /\ ~cli.dry_run
    /\ TargetProbed
    /\ Returned /\ Outcome = "NoChange"
    /\ target_files[ShadowOfCall] = Call.before

(***************************************************************************)
(* C13.  Dry run: while a run with dry_run set is in progress, no step of *)
(* it changes the target library (no directory is created, no file is     *)
(* copied or transcoded), the cover art files or the records file; and    *)
(* every sync_song call of it returns what the call returns without       *)
(* dry_run from the same state of the target library, the same records    *)
(* and the same answers of the file system, when copy and ffmpeg succeed. *)
(***************************************************************************)
\* The hash that from_song read during a call, as its record shows it.
RecordHashOf(l) == IF is_some(l.record) THEN unwrap(l.record).hash ELSE None

\* The result of the call l when it is made again without dry_run.
WithoutDryRun(l) ==
    sync_song(l.song, l.before, cli.target_filetype, cli.art_strategy,
              previous_sync_db, cli.force, FALSE,
              [hash |-> l.hash, record_hash |-> RecordHashOf(l),
               times |-> l.times, ffmpeg |-> "ok", copy_ok |-> TRUE],
              platform.debug_assertions)

DryCallAgrees(l) ==
    /\ l.step = "none" /\ ~l.mkdir
    /\ l.detect = WithoutDryRun(l).detect
    /\ l.kind = WithoutDryRun(l).kind
    /\ l.record = WithoutDryRun(l).record

C13_DryRun ==
    [][(pc = "syncing" /\ cli.dry_run) =>
          /\ target_files' = target_files
          /\ records_file' = records_file
          /\ cover_arts' = cover_arts
          /\ elsewhere' = elsewhere
          /\ pc' # "merged"
          /\ is_some(last') => DryCallAgrees(unwrap(last'))]_vars

\* A dry run has finished: both songs were given an outcome that a run
\* without dry_run would execute, a cover file was waiting to be copied, and
\* the target library is as it was.
C13_Witness ==
    /\ pc = "idle" /\ runs = 1
    /\ \E p \in DOMAIN songs : is_some(songs[p].external_album_art)
    /\ cover_arts = {}
    /\ records_file = None
    /\ \A sh \in ShadowPaths : is_none(target_files[sh])
    /\ clean_run = FALSE /\ faults_left = MaxFaults

(***************************************************************************)
(* C14.  Load: the store that loading returns is the content of the first *)
(* of these that parses: the records file of the target library, the file *)
(* of that name in the working directory, the file of that name in the    *)
(* home directory; it is the empty store when none of them parses.        *)
(***************************************************************************)
StoreCalled == is_some(store_call)
StoreCall == unwrap(store_call)

\* The directories of the candidate locations of a call, in their order.
CandidateDirs(c) ==
    <<"target">> \o (IF c.pwd_ok THEN <<"pwd">> ELSE << >>)
    \o (IF c.home_ok THEN <<"home">> ELSE << >>)

\* The content of the first records file that parses among the directories
\* dirs, from index i on.
RECURSIVE FirstParsing(_, _, _)
FirstParsing(files, dirs, i) ==
    IF i > Len(dirs) THEN EmptyDb
    ELSE IF is_some(files[dirs[i]]) /\ unwrap(files[dirs[i]]).parses
    THEN unwrap(files[dirs[i]]).db
    ELSE FirstParsing(files, dirs, i + 1)

C14_LoadOrder ==
    (StoreCalled /\ StoreCall.op = "load") =>
        StoreCall.db = FirstParsing(StoreCall.before,
                                    CandidateDirs(StoreCall), 1)

(***************************************************************************)
(* C15.  Save: the store is written to the first of the three locations   *)
(* where the write succeeds and to no later one; when the records file of *)
(* the target library cannot be written and the file in the working or    *)
(* home directory can, the store is saved there.                          *)
(***************************************************************************)
\* The first directory among dirs, from index i on, where writing the
\* records file succeeds; None when there is none.
RECURSIVE FirstWritable(_, _, _)
FirstWritable(written, dirs, i) ==
    IF i > Len(dirs) THEN None
    ELSE IF written[dirs[i]] = "ok" THEN Some(dirs[i])
    ELSE FirstWritable(written, dirs, i + 1)

C15_SaveFallback ==
    (StoreCalled /\ StoreCall.op = "save") =>
        LET files == StoreFiles(records_file, elsewhere)
            d == FirstWritable(unwrap(StoreCall.written),
                               CandidateDirs(StoreCall), 1)
        IN /\ StoreCall.success = is_some(d)
           /\ is_some(d) => files[unwrap(d)] = ParsedFile(StoreCall.db)

(***************************************************************************)
(* C16.  Atomic persistence: after a save, every records file that the    *)
(* save did not write successfully is what it was before the save; a      *)
(* store that parsed before a failed write still parses to the same       *)
(* records.                                                               *)
(***************************************************************************)
C16_AtomicPersistence ==
    (StoreCalled /\ StoreCall.op = "save") =>
        \A d \in {"target"} \cup OtherDirs :
            LET files == StoreFiles(records_file, elsewhere) IN
            \/ files[d] = StoreCall.before[d]
            \/ /\ unwrap(StoreCall.written)[d] = "ok"
               /\ files[d] = ParsedFile(StoreCall.db)

(***************************************************************************)
(* C17.  Read-only snapshot under parallelism: in the parallel phase of a *)
(* run on an empty target library without records, the outcome returned   *)
(* for every song is the outcome of sync_song on the state the run        *)
(* started from, whatever the order in which the tasks ran.               *)
(***************************************************************************)
\* The outcome of sync_song for the song at path p when it is the first
\* task to run and hash_file answers hash.
OutcomeWhenFirst(p, hash) ==
    unwrap(unwrap(sync_song(songs[p], None, cli.target_filetype,
                            cli.art_strategy, None, cli.force, cli.dry_run,
                            [hash |-> hash, record_hash |-> None,
                             times |-> "Err", ffmpeg |-> "ok",
                             copy_ok |-> TRUE],
                            platform.debug_assertions).record).update_type)

C17_InterleavingIndependent ==
    pc = "syncing" =>
        \A p \in DOMAIN songs :
            (is_some(sync_results[p]) /\ unwrap(sync_results[p]).ok) =>
                \E hash \in {None, Some(content[p])} :
                    unwrap(unwrap(unwrap(sync_results[p]).record).update_type)
                        = OutcomeWhenFirst(p, hash)

(***************************************************************************)
(* C18.  Unique target path: two distinct songs of the library, also two  *)
(* that differ in the extension only, have distinct shadow files under    *)
(* the target encoding of the run.                                        *)
(***************************************************************************)
C18_UniqueTargetPath ==
    \A p1, p2 \in DOMAIN songs :
        p1 # p2 => get_shadow_filename(p1, cli.target_filetype)
                       # get_shadow_filename(p2, cli.target_filetype)

(***************************************************************************)
(* C19.  Idempotence without records: when a run without dry_run has      *)
(* synced a song onto an empty target library and the next run, with no   *)
(* records loaded and without force, calls sync_song on the unmodified    *)
(* song, the call detects NoChange, returns NoChange and writes nothing.  *)
(***************************************************************************)
\* The second run calls sync_song on a song that the first run has synced:
\* nothing has failed, nothing was edited or deleted, no records are
\* loaded.
SecondSyncWithoutRecords ==
    /\ runs = 2 /\ pc = "syncing" /\ Called
    /\ TargetExists
    /\ is_none(previous_sync_db) /\ ~cli.force
    /\ faults_left = MaxFaults /\ edits_left = MaxEdits

C19_IdempotentWithoutRecords ==
    SecondSyncWithoutRecords =>
        /\ Call.detect = "NoChange"
        /\ Returned /\ Outcome = "NoChange"
        /\ Call.step = "none"

(***************************************************************************)
(* C20.  Hash failure fallback: when hash_file cannot read the source,    *)
(* the detector returns what the metadata comparison against the target   *)
(* returns, and it returns the same for every store of records a run can  *)
(* have loaded: no record is consulted and no stored hash makes it report *)
(* NoChange.                                                              *)
(***************************************************************************)
\* What the detector returns for the call when the run has loaded db.
DetectWith(db) ==
    has_music_file_changed(Call.song, Call.before, db, Want, Desired,
                           Call.hash, Call.times, platform.debug_assertions)

FatalPrecondition ==
    \/ ~platform.target_library_is_dir
    \/ cli.target_filetype.kind = "Flac"

C21_FatalPreconditionsFirst ==
    FatalPrecondition =>
        /\ Called => (Call.step = "none" /\ ~Call.mkdir)
        /\ \A sh \in DOMAIN target_files : is_none(target_files[sh])
        /\ cover_arts = {}
        /\ records_file = None

(***************************************************************************)
(* C22.  Cover art is never overwritten: no step of a run, with or        *)
(* without force, removes or changes a cover art file that is in the      *)
(* target library, and a cover is copied only to a path where no file     *)
(* was.                                                                   *)
(***************************************************************************)
C22_CoverArtNeverOverwritten ==
    [][/\ cover_arts \subseteq cover_arts'
       /\ \A f \in cover_arts' \ cover_arts :
              ~cover_exists(cover_arts, f.path)]_vars

\* A run with force has passed its cover art step: a song has a cover, the
\* target library held another file at the cover's path, and holds it still.
C22_Witness ==
    /\ pc = "merged" /\ cli.force
    /\ \E p \in DOMAIN songs : songs[p].external_album_art = CoverArt
    /\ cover_arts = {OldCover}

(***************************************************************************)
(* C23.  Art strategy None copies no art: no step of a run with           *)
(* ArtStrategy::None adds a cover art file to the target library.        *)
(***************************************************************************)
C23_NoneCopiesNoArt ==
    [][(pc = "syncing" /\ cli.art_strategy = "None") =>
           cover_arts' = cover_arts]_vars

(***************************************************************************)
(* C24.  One result per song: when the parallel phase has completed, the  *)
(* results hold an entry for every discovered song and for no other path, *)
(* every entry is an error or a record with one outcome of UpdateType,    *)
(* and the counters of the summary add up to the number of songs.         *)
(***************************************************************************)
\* The parallel phase of the run has completed and main has its results.
ParallelPhaseDone == pc \in {"syncing", "merged"} /\ AllSynced

Summary == summarize(NoCounts, sync_results, 1)

C24_OneResultPerSong ==
    ParallelPhaseDone =>
        /\ \A p \in LibraryPaths :
               is_some(sync_results[p]) <=> p \in DOMAIN songs
        /\ \A p \in DOMAIN songs :
               LET r == unwrap(sync_results[p]) IN
               IF r.ok
               THEN /\ is_some(r.record)
                    /\ is_some(unwrap(r.record).update_type)
                    /\ unwrap(unwrap(r.record).update_type) \in UpdateType
               ELSE is_none(r.record)
        /\ Summary.n_unchanged + Summary.n_new + Summary.n_overwritten
               + Summary.n_missing_target + Summary.n_copied + Summary.n_err
           = Cardinality(DOMAIN songs)

\* A run with force has completed its parallel phase: one song was
\* overwritten by force and the other failed.
C24_Witness ==
    /\ ParallelPhaseDone
    /\ Summary.n_overwritten = 1 /\ Summary.n_err = 1
    /\ \E p \in DOMAIN songs :
          /\ unwrap(sync_results[p]).ok
          /\ unwrap(unwrap(unwrap(sync_results[p]).record).update_type)
                 = "ForceOverwrite"

(***************************************************************************)
(* C25.  Assertion in the metadata comparison: whenever the detector      *)
(* reaches compare_files_on_metadata and the probe of the target fails,   *)
(* the target file exists; the debug assertion never fails.               *)
(***************************************************************************)
\* The paths of has_music_file_changed that end in the metadata comparison.
MetadataComparisonReached ==
    \/ is_none(Call.hash)
    \/ /\ is_some(Call.hash) /\ is_some(previous_sync_db) /\ TargetExists
       /\ HasRecord => is_none(StoredHash)
    \/ /\ is_some(Call.hash) /\ is_none(previous_sync_db) /\ TargetExists
       /\ Call.times # "Newer"

C25_TargetExistsWhenProbeFails ==
    Called =>
        /\ (MetadataComparisonReached /\ ~parse_file(Call.before).ok)
               => TargetExists
        /\ Call.detect # "Panic"

(***************************************************************************)
(* C26.  Record well-formedness: every record that sync_song returns as   *)
(* Ok, from the early return for NoChange and from the normal return, has *)
(* its update_type set and carries the library_relative_path of its song; *)
(* and in the store a run loaded, merged or wrote, every key is the       *)
(* library_relative_path of the record under it.                          *)
(***************************************************************************)
WellFormedRecord(record, path) ==
    /\ is_some(record.update_type)
    /\ unwrap(record.update_type) \in UpdateType
    /\ record.library_relative_path = path

WellKeyed(db) == \A k \in DOMAIN db : WellFormedRecord(db[k], k)

\* The stores of the state: the one loaded, the one merged, the one in the
\* records file.
StoresOfRun ==
    {unwrap(o) : o \in {x \in {previous_sync_db, new_records} : is_some(x)}}
    \cup (IF is_some(records_file) /\ unwrap(records_file).parses
          THEN {unwrap(records_file).db} ELSE {})

LeftAlone(p) ==
    \/ p \notin DOMAIN songs
    \/ ~unwrap(sync_results[p]).ok
    \/ unwrap(unwrap(sync_results[p]).record).update_type = Some("NoChange")

C27_CarryOver ==
    pc = "merged" =>
        LET loaded == IF is_some(previous_sync_db)
                      THEN unwrap(previous_sync_db) ELSE EmptyDb
            merged == unwrap(new_records)
        IN /\ DOMAIN loaded \subseteq DOMAIN merged
           /\ \A p \in LibraryPaths :
                  LeftAlone(p) => EntryOf(merged, p) = EntryOf(loaded, p)

\* The loaded store held a record of a path that is no longer a song, of a
\* song that then failed and of none for a song that was then synced; after
\* the merge it holds all three.
C27_Witness ==
    /\ pc = "merged"
    /\ is_some(previous_sync_db)
    /\ DOMAIN unwrap(previous_sync_db) = {PathA, PathC}
    /\ ~unwrap(sync_results[PathA]).ok
    /\ unwrap(sync_results[PathB]).ok
    /\ ~LeftAlone(PathB)
    /\ DOMAIN unwrap(new_records) = {PathA, PathB, PathC}
    /\ unwrap(new_records)[PathC] = unwrap(previous_sync_db)[PathC]
    /\ unwrap(new_records)[PathA] = unwrap(previous_sync_db)[PathA]

(***************************************************************************)
(* C28.  Detection and embedding agree: for every art strategy and every  *)
(* song, the art expectation that sync_song hands to the change detector  *)
(* is the embedding decision that it hands to the transcoder.             *)
(***************************************************************************)
C28_DetectionAndEmbeddingAgree ==
    /\ Called => Call.embed = want_embedded_album_art(cli.art_strategy,
                                                      Call.song)
    /\ \A art_strategy \in ArtStrategy, p \in DOMAIN songs :
           want_embedded_album_art(art_strategy, songs[p])
               = whether_to_embed_art(art_strategy, songs[p])

\* A song without any art was transcoded under EmbedAll: the detector was
\* told to expect art and the transcoder was told to embed it.
C28_Witness ==
    /\ Called /\ Call.step = "transcode"
    /\ cli.art_strategy = "EmbedAll"
    /\ ~Call.song.metadata.has_embedded_album_art
    /\ is_none(Call.song.external_album_art)
    /\ Call.embed /\ Want

(***************************************************************************)
(* C29.  Action follows outcome only: in a call without dry_run the       *)
(* source is copied exactly when the final outcome is Copied, and the     *)
(* transcoder is called exactly when it is NewTranscode, Overwrite,       *)
(* ForceOverwrite or TranscodeMissingTarget, whatever the bitrate of the  *)
(* source; the outcome returned is that final outcome.                    *)
(***************************************************************************)
\* The outcome after force was applied to what the detector returned.
FinalStatus ==
    IF Call.detect = "NoChange" /\ cli.force THEN "ForceOverwrite"
    ELSE Call.detect

C30_SaveLoadRoundTrip ==
    (StoreCalled /\ StoreCall.op = "load" /\ is_some(StoreCall.saved)) =>
        StoreCall.db = unwrap(StoreCall.saved)

\* A run saved a store with a record while the working directory held a
\* records file with another store; the next run loaded the store saved.
C30_Witness ==
    /\ StoreCalled /\ StoreCall.op = "load" /\ StoreCall.pwd_ok
    /\ is_some(StoreCall.saved)
    /\ unwrap(StoreCall.saved) # EmptyDb
    /\ is_some(elsewhere["pwd"]) /\ unwrap(elsewhere["pwd"]).parses
    /\ unwrap(elsewhere["pwd"]).db # unwrap(StoreCall.saved)
    /\ StoreCall.db = unwrap(StoreCall.saved)

====
